---- MODULE Spec2Model ----
(***************************************************************************)
(* Model of packages/ai: the AI orchestrator (call, callStructuredOutput,  *)
(* getRawAgent), its lazily built checkpointer and the model resolution.   *)
(*                                                                         *)
(* JavaScript is single threaded: every action below is the code that runs *)
(* between two suspension points (await) of one caller.                    *)
(***************************************************************************)
EXTENDS Integers, Sequences, FiniteSets, TLC

VARIABLES
    config,               \* AIConstructor: the object given to new AI(...)
    checkpointer,         \* AI.checkpointer
    checkpointerPromise,  \* AI.checkpointerPromise: 0, or an index into promises
    promises,             \* every promise createCheckpointer has returned
    threadWrites,         \* checkpoint backend: writes stored per thread id
    pc,                   \* per caller: where its async method is suspended
    params,               \* per caller: the AICallParams it was called with
    awaiting,             \* per caller: what `await this.getCheckpointer()` waits on
    cpLocal,              \* per caller: the local `checkpointer`
    invLog,               \* per caller: the agents created and invoked, in order
    clients,              \* per caller: provider clients constructed, in order
    console,              \* per caller: the lines written with console.warn
    result,               \* per caller: how the method settled
    agent,                \* AIMemory.agent
    memoryCheckpointer,   \* AIMemory.checkpointer
    snapshots,            \* checkpoint backend: the thread's snapshots, newest first
    now,                  \* the clock that `new Date()` reads
    lastHistory,          \* the latest getHistory call since the last write, with what it returned
    env,                  \* process.env.OPENAI_API_KEY
    files                 \* the temp files that exist in os.tmpdir()

aiVars == <<config, checkpointer, checkpointerPromise, promises, threadWrites>>
callVars == <<pc, params, awaiting, cpLocal, invLog, clients, console, result>>
memVars == <<agent, memoryCheckpointer, snapshots, now, lastHistory>>
osVars == <<env, files>>
vars == <<config, checkpointer, checkpointerPromise, promises, threadWrites,
          pc, params, awaiting, cpLocal, invLog, clients, console, result,
          agent, memoryCheckpointer, snapshots, now, lastHistory, env, files>>

----------------------------------------------------------------------------
(* Bounds *)

NumCallers == 2          \* concurrent callers of one AI instance
MaxFallbacks == 2        \* longest aiModelsFallback list
MaxRetriesParam == 1     \* largest maxRetries a caller passes explicitly
MaxSnapshots == 2        \* most snapshots written to the thread

Callers == 1..NumCallers

----------------------------------------------------------------------------
(* Values *)

None == [some |-> FALSE]                \* an optional property left out
Some(v) == [some |-> TRUE, v |-> v]     \* an optional property that was passed
NoCp == [cp |-> "none"]                 \* `undefined` where a checkpointer is expected

ExplicitCp == [cp |-> "explicit"]          \* config.checkpointer
BuiltCp(n) == [cp |-> "built", n |-> n]    \* the n-th backend constructed

PrimaryModels == {"gpt-4", "gemini-2.5-flash", "unsupported-model"}
FallbackModels == {"gemini-2.5-flash", "openrouter/openai/gpt-5-nano"}
ThreadIds == {"thread-123"}
MemoryKinds == {"memory", "postgres"}

SeqsUpTo(S, n) == UNION {[1..k -> S] : k \in 0..n}
FallbackLists == SeqsUpTo(FallbackModels, MaxFallbacks)

Optional(S) == {None} \cup {Some(v) : v \in S}

\* JavaScript truthiness of an optional string (undefined and "" are falsy)
Truthy(o) == o.some /\ o.v # ""

(* String.prototype.startsWith *)
StartsWith(s, prefix) ==
    Len(s) >= Len(prefix) /\ SubSeq(s, 1, Len(prefix)) = prefix

(* String.prototype.replace(/^openrouter\//, "") *)
StripOpenRouter(s) ==
    IF StartsWith(s, "openrouter/")
    THEN SubSeq(s, Len("openrouter/") + 1, Len(s))
    ELSE s

\* the white space characters that occur in the contents modelled
Whitespace == {" ", "\t", "\n"}

(* String.prototype.trim *)
RECURSIVE TrimStart(_)
TrimStart(s) ==
    IF Len(s) > 0 /\ SubSeq(s, 1, 1) \in Whitespace
    THEN TrimStart(SubSeq(s, 2, Len(s)))
    ELSE s

RECURSIVE TrimEnd(_)
TrimEnd(s) ==
    IF Len(s) > 0 /\ SubSeq(s, Len(s), Len(s)) \in Whitespace
    THEN TrimEnd(SubSeq(s, 1, Len(s) - 1))
    ELSE s

Trim(s) == TrimEnd(TrimStart(s))

----------------------------------------------------------------------------
(* Errors: an error object is a record; the caller receives the very       *)
(* record that was thrown unless some code builds another one.             *)

ThreadIdError == [type |-> "config", message |-> "threadId é obrigatório"]
ModelNotSupported == [type |-> "config", message |-> "Model not supported"]
ApiKeyError(provider) ==
    [type |-> "config", message |-> provider \o " API key is not passed in the model parameters"]
ZodError == [type |-> "validation", message |-> "ZodError"]
InvokeError(cand, attempt) == [type |-> "invoke", cand |-> cand, attempt |-> attempt]

----------------------------------------------------------------------------
(* AIModels: the provider clients *)

Client(provider, options) == [ok |-> TRUE, provider |-> provider, options |-> options]
Thrown(e) == [ok |-> FALSE, error |-> e]

\* modelConfig: what a caller may pass; temperatures are in tenths
MaxTokensVals == {0, 2000}
TemperatureVals == {0, 7}
ReasoningEfforts == {"medium"}
ModelConfigs ==
    [maxTokens : Optional(MaxTokensVals),
     temperature : Optional(TemperatureVals),
     reasoningEffort : Optional(ReasoningEfforts)]
NoModelConfig == [maxTokens |-> None, temperature |-> None, reasoningEffort |-> None]

\* JavaScript truthiness of an optional number (undefined and 0 are falsy)
TruthyNumber(o) == o.some /\ o.v # 0

\* `if (x) options.x = x`: the option is set only when the value is truthy
IfTruthyNumber(o) == IF TruthyNumber(o) THEN o ELSE None
IfTruthy(o) == IF Truthy(o) THEN o ELSE None

OpenRouterBaseURL == "https://openrouter.ai/api/v1"

\* mutant: the OpenAI client is built without looking at the key
AIModels_gptNoKeyCheck(cfg) ==
    Client("ChatOpenAI",
           [model |-> cfg.model, apiKey |-> cfg.apiKey,
            maxTokens |-> IfTruthyNumber(cfg.maxTokens),
            temperature |-> IfTruthyNumber(cfg.temperature),
            reasoning_effort |-> IfTruthy(cfg.reasoningEffort),
            baseURL |-> None])

(* AIModels.gpt(params: LLMModelConfig) *)
AIModels_gpt(cfg) ==
    IF ~Truthy(cfg.apiKey) THEN Thrown(ApiKeyError("OpenAI"))
    ELSE Client("ChatOpenAI",
                [model |-> cfg.model, apiKey |-> cfg.apiKey,
                 maxTokens |-> IfTruthyNumber(cfg.maxTokens),
                 temperature |-> IfTruthyNumber(cfg.temperature),
                 reasoning_effort |-> IfTruthy(cfg.reasoningEffort),
                 baseURL |-> None])

(* AIModels.gemini(params: LLMModelConfig): reasoningEffort is not read *)
AIModels_gemini(cfg) ==
    IF ~Truthy(cfg.apiKey) THEN Thrown(ApiKeyError("Google Gemini"))
    ELSE Client("ChatGoogleGenerativeAI",
                [model |-> cfg.model, apiKey |-> cfg.apiKey,
                 maxTokens |-> IfTruthyNumber(cfg.maxTokens),
                 temperature |-> IfTruthyNumber(cfg.temperature),
                 reasoning_effort |-> None,
                 baseURL |-> None])

\* mutant: the OpenRouter client is built without reasoning_effort
AIModels_openrouterNoEffort(cfg) ==
    IF ~Truthy(cfg.apiKey) THEN Thrown(ApiKeyError("OpenRouter"))
    ELSE Client("ChatOpenAI",
                [model |-> cfg.model, apiKey |-> cfg.apiKey,
                 maxTokens |-> IfTruthyNumber(cfg.maxTokens),
                 temperature |-> IfTruthyNumber(cfg.temperature),
                 reasoning_effort |-> None,
                 baseURL |-> Some(OpenRouterBaseURL)])

(* AIModels.openrouter(params: LLMModelConfig): a ChatOpenAI with a base URL *)
AIModels_openrouter(cfg) ==
    IF ~Truthy(cfg.apiKey) THEN Thrown(ApiKeyError("OpenRouter"))
    ELSE Client("ChatOpenAI",
                [model |-> cfg.model, apiKey |-> cfg.apiKey,
                 maxTokens |-> IfTruthyNumber(cfg.maxTokens),
                 temperature |-> IfTruthyNumber(cfg.temperature),
                 reasoning_effort |-> IfTruthy(cfg.reasoningEffort),
                 baseURL |-> Some(OpenRouterBaseURL)])

(* The getModel kept under src/packages/ai/src/index.ts builds its          *)
(* LLMModelConfig from model, maxTokens and temperature only; the handling  *)
(* of modelConfig.reasoningEffort that tests/unit/index.test.ts exercises   *)
(* (forwarded for gpt and openrouter/openai models, a console.warn          *)
(* otherwise) is not under src. SupportsReasoningEffort, ForwardedEffort    *)
(* and ReasoningWarnings follow section 4.1 of the specification.           *)
SupportsReasoningEffort(aiModel) ==
    StartsWith(aiModel, "gpt") \/ StartsWith(aiModel, "openrouter/openai/")

ForwardedEffort(aiModel, modelConfig) ==
    IF SupportsReasoningEffort(aiModel) THEN modelConfig.reasoningEffort ELSE None

ReasoningWarnings(aiModel, modelConfig) ==
    IF Truthy(modelConfig.reasoningEffort) /\ ~SupportsReasoningEffort(aiModel)
    THEN <<"O modelo \"" \o aiModel \o "\" não suporta reasoningEffort">>
    ELSE <<>>

(* `const config: LLMModelConfig = {model, maxTokens, temperature}` and apiKey *)
LLMModelConfig(model, apiKey, modelConfig, effort) ==
    [model |-> model, apiKey |-> apiKey,
     maxTokens |-> modelConfig.maxTokens,
     temperature |-> modelConfig.temperature,
     reasoningEffort |-> effort]

\* mutant: an openrouter name whose routed model is a gpt model goes to OpenAI
getModelByRoutedName(aiModel, modelConfig) ==
    LET effort == ForwardedEffort(aiModel, modelConfig)
        routed == StripOpenRouter(aiModel)
    IN  IF StartsWith(aiModel, "gpt") \/ StartsWith(routed, "openai/gpt")
        THEN AIModels_gpt(LLMModelConfig(aiModel, config.openAIApiKey, modelConfig, effort))
        ELSE IF StartsWith(aiModel, "gemini")
        THEN AIModels_gemini(LLMModelConfig(aiModel, config.googleGeminiToken, modelConfig, effort))
        ELSE IF StartsWith(aiModel, "openrouter/")
        THEN AIModels_openrouter(
                LLMModelConfig(routed, config.openRouterApiKey, modelConfig, effort))
        ELSE Thrown(ModelNotSupported)

(* AI.getModel: the provider is chosen by the prefix of the model name *)
getModel(aiModel, modelConfig) ==
    LET effort == ForwardedEffort(aiModel, modelConfig)
    IN  IF StartsWith(aiModel, "gpt")
        THEN AIModels_gpt(LLMModelConfig(aiModel, config.openAIApiKey, modelConfig, effort))
        ELSE IF StartsWith(aiModel, "gemini")
        THEN AIModels_gemini(LLMModelConfig(aiModel, config.googleGeminiToken, modelConfig, effort))
        ELSE IF StartsWith(aiModel, "openrouter/")
        THEN AIModels_openrouter(
                LLMModelConfig(StripOpenRouter(aiModel), config.openRouterApiKey,
                               modelConfig, effort))
        ELSE Thrown(ModelNotSupported)

----------------------------------------------------------------------------
(* Structured output: zod schemas and values.                              *)
(* An object schema has a shape over Fields. A field is a base type under  *)
(* a chain of wrappers, outermost first: z.number().optional().nullable()   *)
(* is a ZodNullable around a ZodOptional, <<"nullable", "optional">>.       *)
(* A value is known by its JavaScript type; "absent" is a missing key.      *)

Fields == {"a", "b"}
FieldVals == {"string", "number", "null", "absent"}
Wrappers ==
    {<<>>, <<"optional">>, <<"nullable">>,
     <<"nullable", "optional">>, <<"optional", "nullable">>}

Field(type, wrappers) == [type |-> type, wrappers |-> wrappers]
\* z.object(shape): a fresh object schema, without a description
ZodObject(shape) == [kind |-> "object", shape |-> shape, description |-> None]
\* schema.describe(text): the same schema with a description
Describe(schema, text) == [schema EXCEPT !.description = Some(text)]
\* z.string(): a schema that is not an object
ZodString == [kind |-> "string", description |-> None]

SchemaRequired ==
    ZodObject([a |-> Field("string", <<>>), b |-> Field("number", <<>>)])
SchemaOptional ==
    ZodObject([a |-> Field("string", <<>>), b |-> Field("number", <<"optional">>)])
Schemas == {SchemaRequired, SchemaOptional}
AllSchemas ==
    {ZodObject([a |-> Field("string", wa), b |-> Field("number", wb)]) :
        wa \in Wrappers, wb \in Wrappers}
    \cup {Describe(schema, "resumo") : schema \in Schemas \cup {ZodString}}
    \cup {ZodString}

Undefined == [t |-> "undefined"]
Object(f) == [t |-> "object", fields |-> f]
StructuredResponses == {Undefined} \cup {Object(f) : f \in [Fields -> FieldVals]}

Has(wrappers, w) == \E i \in 1..Len(wrappers) : wrappers[i] = w

(* what ZodOptional, ZodNullable and the base type let through *)
FieldAccepts(field, v) ==
    \/ v = field.type
    \/ v = "absent" /\ Has(field.wrappers, "optional")
    \/ v = "null" /\ Has(field.wrappers, "nullable")

(* ZodObject.parse: TRUE when the value parses, FALSE when parse throws *)
zodParses(schema, value) ==
    IF schema.kind = "object"
    THEN /\ value.t = "object"
         /\ \A f \in DOMAIN schema.shape : FieldAccepts(schema.shape[f], value.fields[f])
    ELSE value.t = schema.kind

\* `value instanceof z.ZodOptional`: the class of the outermost wrapper
IsZodOptional(field) == field.wrappers # <<>> /\ Head(field.wrappers) = "optional"

\* z.union([innerType, z.null()]): the inner type or null
UnionWithNull(field) == Field(field.type, <<"nullable">> \o Tail(field.wrappers))

(* AI.normalizeSchemaForOpenAI *)
normalizeSchemaForOpenAI(schema, aiModel) ==
    LET isOpenAIModel ==
            StartsWith(aiModel, "gpt") \/ StartsWith(aiModel, "openrouter/openai/")
    IN  IF ~isOpenAIModel THEN schema
        ELSE IF schema.kind = "object"
        THEN ZodObject([f \in DOMAIN schema.shape |->
                IF IsZodOptional(schema.shape[f])
                THEN UnionWithNull(schema.shape[f])
                ELSE schema.shape[f]])
        ELSE schema

----------------------------------------------------------------------------
(* Free-form output: the text of the last message *)

Placeholder == "Empty response from the model"

Str(s) == [t |-> "string", s |-> s]
Contents ==
    {[t |-> "null"], [t |-> "undefined"], [t |-> "array"],
     Str(""), Str(" "), Str("ok"), Str(" ok\n")}

InputMessage == [content |-> Str("Teste")]
MessageLists == {<<>>} \cup {<<InputMessage, [content |-> c]>> : c \in Contents}

(* response.messages.at(-1)?.content *)
LastContent(messages) ==
    IF Len(messages) = 0 THEN [t |-> "undefined"]
    ELSE messages[Len(messages)].content

\* mutant: the content is not trimmed before the emptiness test
ResponseTextUntrimmed(messages) ==
    LET rawContent == LastContent(messages)
    IN  IF rawContent.t = "string" /\ rawContent.s # ""
        THEN rawContent.s
        ELSE Placeholder

(* AI.call: the text returned for a response *)
ResponseText(messages) ==
    LET rawContent == LastContent(messages)
    IN  IF rawContent.t = "string" /\ Trim(rawContent.s) # ""
        THEN rawContent.s
        ELSE Placeholder

----------------------------------------------------------------------------
(* AIMemory: the state of a fresh instance, an empty thread, the clock at 1 *)

\* what new Date().toISOString() may read
Instants == {"2025-01-01T00:00:00.000Z", "2025-01-02T00:00:00.000Z"}

NoAgent == [graph |-> "none"]
Graph(name) == [graph |-> name]

InitMemory ==
    /\ agent = NoAgent
    /\ memoryCheckpointer = NoCp
    /\ snapshots = <<>>
    /\ now \in Instants
    /\ lastHistory = None

----------------------------------------------------------------------------
(* The AI instance and its callers *)

Ops == {"call", "callStructuredOutput", "getRawAgent"}

ParamsOf(ops, models, fallbacks, threads, retries, modelConfigs, schemas) ==
    {ps \in [op : ops, aiModel : models, aiModelsFallback : fallbacks,
             threadId : threads, maxRetries : retries,
             modelConfig : modelConfigs,
             outputSchema : Optional(schemas)] :
        ps.outputSchema.some <=> ps.op = "callStructuredOutput"}

AllParams ==
    ParamsOf(Ops, PrimaryModels, Optional(FallbackLists), Optional(ThreadIds),
             Optional(0..MaxRetriesParam), {NoModelConfig}, Schemas)

Configs ==
    [memory : Optional(MemoryKinds),
     checkpointer : {NoCp, ExplicitCp},
     aiModelsFallback : Optional({<<"gemini-2.5-flash">>}),
     openAIApiKey : {Some("test-openai-key")},
     googleGeminiToken : Optional({"test-gemini-token"}),
     openRouterApiKey : {Some("test-openrouter-key")}]

NoParams ==
    [op |-> "call", aiModel |-> "gpt-4", aiModelsFallback |-> None,
     threadId |-> None, maxRetries |-> None, modelConfig |-> NoModelConfig,
     outputSchema |-> None]
Pending == [status |-> "pending"]
Ok(v) == [status |-> "ok", value |-> v]
Err(e) == [status |-> "error", error |-> e]

\* mutant: the constructor does not keep config.checkpointer
InitForgetsCheckpointer(C) ==
    /\ config \in C
    /\ checkpointer = NoCp
    /\ checkpointerPromise = 0
    /\ promises = <<>>
    /\ threadWrites = [t \in ThreadIds |-> 0]
    /\ pc = [p \in Callers |-> "idle"]
    /\ params = [p \in Callers |-> NoParams]
    /\ awaiting = [p \in Callers |-> [kind |-> "nothing"]]
    /\ cpLocal = [p \in Callers |-> NoCp]
    /\ invLog = [p \in Callers |-> <<>>]
    /\ clients = [p \in Callers |-> <<>>]
    /\ console = [p \in Callers |-> <<>>]
    /\ result = [p \in Callers |-> Pending]
    /\ InitMemory
    /\ env = None
    /\ files = {}

(* new AI(config): the constructor keeps config.checkpointer *)
InitWith(C) ==
    /\ config \in C
    /\ checkpointer = config.checkpointer
    /\ checkpointerPromise = 0
    /\ promises = <<>>
    /\ threadWrites = [t \in ThreadIds |-> 0]
    /\ pc = [p \in Callers |-> "idle"]
    /\ params = [p \in Callers |-> NoParams]
    /\ awaiting = [p \in Callers |-> [kind |-> "nothing"]]
    /\ cpLocal = [p \in Callers |-> NoCp]
    /\ invLog = [p \in Callers |-> <<>>]
    /\ clients = [p \in Callers |-> <<>>]
    /\ console = [p \in Callers |-> <<>>]
    /\ result = [p \in Callers |-> Pending]
    /\ InitMemory
    /\ env = None
    /\ files = {}

Init == InitWith(Configs)

\* mutant: the check looks at config.checkpointer only
ensureThreadIdOnlyExplicit(ps) ==
    IF config.checkpointer # NoCp /\ ~Truthy(ps.threadId)
    THEN Some(ThreadIdError)
    ELSE None

(* AI.ensureThreadIdWhenCheckpointer: the error it throws, if any *)
ensureThreadIdWhenCheckpointer(ps) ==
    IF (config.checkpointer # NoCp \/ config.memory.some) /\ ~Truthy(ps.threadId)
    THEN Some(ThreadIdError)
    ELSE None

(* createCheckpointer(config.memory): the promise the async function returns. *)
(* The memory kind returns before any await; the others await their driver.   *)
createCheckpointer(kind, n) ==
    IF kind = "memory"
    THEN [state |-> "resolved", value |-> BuiltCp(n)]
    ELSE [state |-> "pending", kind |-> kind]

\* mutant: one message for every backend
ConstructionFailedError(kind, cause) ==
    [type |-> "construct", message |-> "Falha ao criar o checkpointer", cause |-> cause]

(* the error createCheckpointer throws from its catch block *)
MissingPackageError(kind, cause) ==
    LET name == CASE kind = "sqlite" -> "SQLite"
                  [] kind = "postgres" -> "Postgres"
                  [] kind = "redis" -> "Redis"
                  [] kind = "mongodb" -> "MongoDB"
        package == "@langchain/langgraph-checkpoint-" \o kind
        message ==
            IF kind = "mongodb"
            THEN "Checkpointer MongoDB requer os pacotes \"" \o package \o "\" e \"mongodb\". "
                    \o "Instale com: pnpm add " \o package \o " mongodb"
            ELSE "Checkpointer " \o name \o " requer o pacote \"" \o package \o "\". "
                    \o "Instale com: pnpm add " \o package
    IN  [type |-> "construct", message |-> message, cause |-> cause]

\* mutant: the in-flight promise is not consulted
AlwaysConstruct == TRUE

\* mutant: a construction that failed is forgotten and started again
ConstructAgainAfterFailure ==
    \/ checkpointerPromise = 0
    \/ promises[checkpointerPromise].state = "rejected"

(* AI.getCheckpointer, line 229: is a construction to be started? *)
NoConstructionYet == checkpointerPromise = 0

(* AI.getCheckpointer up to its await (or its return) *)
getCheckpointer(p) ==
    IF checkpointer # NoCp
    THEN /\ awaiting' = [awaiting EXCEPT ![p] = [kind |-> "value", value |-> checkpointer]]
         /\ UNCHANGED <<checkpointerPromise, promises>>
    ELSE IF config.memory.some
    THEN IF NoConstructionYet
         THEN LET n == Len(promises) + 1
              IN  /\ promises' = Append(promises, createCheckpointer(config.memory.v, n))
                  /\ checkpointerPromise' = n
                  /\ awaiting' = [awaiting EXCEPT ![p] = [kind |-> "promise", id |-> n]]
         ELSE /\ awaiting' = [awaiting EXCEPT ![p] =
                                [kind |-> "promise", id |-> checkpointerPromise]]
              /\ UNCHANGED <<checkpointerPromise, promises>>
    ELSE /\ awaiting' = [awaiting EXCEPT ![p] = [kind |-> "value", value |-> NoCp]]
         /\ UNCHANGED <<checkpointerPromise, promises>>

(* call / callStructuredOutput / getRawAgent, from entry to the first await *)
Begin(p, P) ==
    /\ pc[p] = "idle"
    /\ \E ps \in P :
        /\ params' = [params EXCEPT ![p] = ps]
        /\ LET thrown == ensureThreadIdWhenCheckpointer(ps)
           IN  IF thrown.some
               THEN /\ result' = [result EXCEPT ![p] = Err(thrown.v)]
                    /\ pc' = [pc EXCEPT ![p] = "done"]
                    /\ UNCHANGED <<awaiting, checkpointerPromise, promises>>
               ELSE /\ getCheckpointer(p)
                    /\ pc' = [pc EXCEPT ![p] = "awaitCp"]
                    /\ UNCHANGED result
    /\ UNCHANGED <<config, checkpointer, threadWrites, cpLocal, invLog, clients, console>>
    /\ UNCHANGED memVars
    /\ UNCHANGED osVars

(* the driver import and the backend setup succeed *)
ConstructResolve(n) ==
    /\ n \in 1..Len(promises)
    /\ promises[n].state = "pending"
    /\ promises' = [promises EXCEPT ![n] = [state |-> "resolved", value |-> BuiltCp(n)]]
    /\ UNCHANGED <<config, checkpointer, checkpointerPromise, threadWrites>>
    /\ UNCHANGED callVars
    /\ UNCHANGED memVars
    /\ UNCHANGED osVars

(* the driver import or the backend setup throws inside the try block *)
ConstructReject(n, cause) ==
    /\ n \in 1..Len(promises)
    /\ promises[n].state = "pending"
    /\ promises' = [promises EXCEPT ![n] =
            [state |-> "rejected",
             error |-> MissingPackageError(promises[n].kind, cause)]]
    /\ UNCHANGED <<config, checkpointer, checkpointerPromise, threadWrites>>
    /\ UNCHANGED callVars
    /\ UNCHANGED memVars
    /\ UNCHANGED osVars

----------------------------------------------------------------------------
(* The agent and its invocation *)

DefaultMaxRetries == 3

\* mutant: the caller's maxRetries is dropped
MaxRetriesIgnored(ps) == DefaultMaxRetries

(* AI.standardAgent: `const { systemPrompt, maxRetries = 3 } = params` *)
MaxRetriesOf(ps) ==
    IF ps.maxRetries.some THEN ps.maxRetries.v ELSE DefaultMaxRetries

(* modelRetryMiddleware({ maxRetries }): the first attempt and maxRetries retries *)
RetryBudget(maxRetries) == maxRetries + 1

\* mutant: the constructor's list wins over the request's
CandidateListCtorFirst(ps) ==
    <<ps.aiModel>> \o
        (IF config.aiModelsFallback.some THEN config.aiModelsFallback.v
         ELSE IF ps.aiModelsFallback.some THEN ps.aiModelsFallback.v
         ELSE <<>>)

(* The AI class kept under src/packages/ai/src/index.ts predates the        *)
(* aiModelsFallback option that @types/ai-call.ts declares and that         *)
(* tests/unit/index.test.ts exercises (createAgent is called once per       *)
(* candidate). The candidate list and the loop over it (CandidateList,      *)
(* MayStartNext, NextCandidate, ExhaustedError, Advance) follow section 4.3 *)
(* of the specification; what each pass does with its candidate is the code *)
(* of AI.call / AI.callStructuredOutput.                                    *)
(*                                                                         *)
(* The candidate list: the primary model, then the request's fallbacks,    *)
(* or the constructor's when the request has none.                         *)
CandidateList(ps) ==
    <<ps.aiModel>> \o
        (IF ps.aiModelsFallback.some THEN ps.aiModelsFallback.v
         ELSE IF config.aiModelsFallback.some THEN config.aiModelsFallback.v
         ELSE <<>>)

\* mutant: the thread id is not handed to invoke
invokeConfigDropped(ps, cp) == None

(* invokeConfig: `params.threadId && checkpointer ? {configurable: {thread_id}} : undefined` *)
invokeConfig(ps, cp) ==
    IF Truthy(ps.threadId) /\ cp # NoCp THEN Some(ps.threadId.v) ELSE None

(* responseFormat given to createAgent *)
responseFormat(ps, aiModel) ==
    IF ps.op = "callStructuredOutput"
    THEN Some(normalizeSchemaForOpenAI(ps.outputSchema.v, aiModel))
    ELSE None

(* createAgent({...standardAgent(params, checkpointer), responseFormat}) *)
createAgent(ps, aiModel, client, cp) ==
    [model |-> client, aiModel |-> aiModel, checkpointer |-> cp,
     maxRetries |-> MaxRetriesOf(ps), responseFormat |-> responseFormat(ps, aiModel)]

(* the checkpointer saves the input of an invocation that has a thread *)
SaveCheckpoint(thread) ==
    IF thread.some
    THEN threadWrites' = [threadWrites EXCEPT ![thread.v] = @ + 1]
    ELSE UNCHANGED threadWrites

(* One pass of the candidate loop up to `await agent.invoke(...)`:         *)
(* resolve candidate i, create its agent, start its invocation.            *)
StartCandidate(p, i, cp) ==
    LET ps == params[p]
        aiModel == CandidateList(ps)[i]
        client == getModel(aiModel, ps.modelConfig)
        thread == invokeConfig(ps, cp)
    IN  /\ console' = [console EXCEPT ![p] = @ \o ReasoningWarnings(aiModel, ps.modelConfig)]
        /\ IF ~client.ok
           THEN /\ result' = [result EXCEPT ![p] = Err(client.error)]
                /\ pc' = [pc EXCEPT ![p] = "done"]
                /\ UNCHANGED <<invLog, clients, threadWrites>>
           ELSE /\ clients' = [clients EXCEPT ![p] = Append(@, client)]
                /\ invLog' = [invLog EXCEPT ![p] = Append(@,
                       [cand |-> i,
                        agent |-> createAgent(ps, aiModel, client, cp),
                        thread_id |-> thread,
                        state |-> "inflight",
                        attempts |-> 0,
                        error |-> None,
                        response |-> None])]
                /\ SaveCheckpoint(thread)
                /\ pc' = [pc EXCEPT ![p] = "invoking"]
                /\ UNCHANGED result

(* AI.getRawAgent after the checkpointer: create the agent and return it *)
ReturnRawAgent(p, cp) ==
    LET ps == params[p]
        client == getModel(ps.aiModel, ps.modelConfig)
    IN  /\ pc' = [pc EXCEPT ![p] = "done"]
        /\ console' = [console EXCEPT ![p] = @ \o ReasoningWarnings(ps.aiModel, ps.modelConfig)]
        /\ UNCHANGED <<invLog, threadWrites>>
        /\ IF ~client.ok
           THEN /\ result' = [result EXCEPT ![p] = Err(client.error)]
                /\ UNCHANGED clients
           ELSE /\ clients' = [clients EXCEPT ![p] = Append(@, client)]
                /\ result' = [result EXCEPT ![p] =
                        Ok(createAgent(ps, ps.aiModel, client, cp))]

(* `await this.getCheckpointer()` returns or throws, and the method runs on *)
(* to its next await                                                        *)
ResumeCp(p) ==
    /\ pc[p] = "awaitCp"
    /\ LET a == awaiting[p] IN
       /\ a.kind = "promise" => promises[a.id].state # "pending"
       /\ IF a.kind = "promise" /\ promises[a.id].state = "rejected"
          THEN /\ result' = [result EXCEPT ![p] = Err(promises[a.id].error)]
               /\ pc' = [pc EXCEPT ![p] = "done"]
               /\ UNCHANGED <<checkpointer, cpLocal, invLog, clients, console, threadWrites>>
          ELSE LET cp == IF a.kind = "promise" THEN promises[a.id].value ELSE a.value
               IN  /\ checkpointer' = IF a.kind = "promise" THEN cp ELSE checkpointer
                   /\ cpLocal' = [cpLocal EXCEPT ![p] = cp]
                   /\ IF params[p].op = "getRawAgent"
                      THEN ReturnRawAgent(p, cp)
                      ELSE StartCandidate(p, 1, cp)
    /\ awaiting' = [awaiting EXCEPT ![p] = [kind |-> "nothing"]]
    /\ UNCHANGED <<config, checkpointerPromise, promises, params>>
    /\ UNCHANGED memVars
    /\ UNCHANGED osVars

InFlight(p) == {k \in 1..Len(invLog[p]) : invLog[p][k].state = "inflight"}

(* agent.invoke: one attempt of the model fails; the retry middleware tries *)
(* again until its budget is used up, then the invocation rejects           *)
AttemptFails(p, k) ==
    /\ k \in InFlight(p)
    /\ LET inv == invLog[p][k]
           n == inv.attempts + 1
       IN  invLog' = [invLog EXCEPT ![p][k] =
              [inv EXCEPT !.attempts = n,
                          !.error = Some(InvokeError(inv.cand, n)),
                          !.state = IF n >= RetryBudget(inv.agent.maxRetries)
                                    THEN "rejected" ELSE "inflight"]]
    /\ UNCHANGED aiVars
    /\ UNCHANGED <<pc, params, awaiting, cpLocal, clients, console, result>>
    /\ UNCHANGED memVars
    /\ UNCHANGED osVars

ResponsesFor(op) ==
    IF op = "call"
    THEN {[messages |-> m, structuredResponse |-> Undefined] : m \in MessageLists}
    ELSE {[messages |-> <<>>, structuredResponse |-> r] : r \in StructuredResponses}

(* agent.invoke: an attempt succeeds and the invocation resolves *)
AttemptSucceeds(p, k) ==
    /\ k \in InFlight(p)
    /\ \E resp \in ResponsesFor(params[p].op) :
          invLog' = [invLog EXCEPT ![p][k] =
              [@ EXCEPT !.attempts = @ + 1,
                        !.state = "resolved",
                        !.response = Some(resp)]]
    /\ SaveCheckpoint(invLog[p][k].thread_id)
    /\ UNCHANGED <<config, checkpointer, checkpointerPromise, promises>>
    /\ UNCHANGED <<pc, params, awaiting, cpLocal, clients, console, result>>
    /\ UNCHANGED memVars
    /\ UNCHANGED osVars

Last(p) == invLog[p][Len(invLog[p])]

\* mutant: the next candidate is started without awaiting the previous one
MayStartNextEagerly(p) == TRUE

(* the candidate loop goes on only once the awaited invocation has rejected *)
MayStartNext(p) == Last(p).state = "rejected"

\* mutant: the first error is kept instead of the last
ExhaustedErrorFirst(p) == invLog[p][1].error.v

\* mutant: the loop index does not move on
NextCandidateStuck(p) == Len(invLog[p])

(* the index of the candidate tried after a failure *)
NextCandidate(p) == Len(invLog[p]) + 1

(* the error the call rejects with when no candidate is left *)
ExhaustedError(p) == Last(p).error.v

(* `await agent.invoke(...)` throws: the next candidate, or the last error *)
Advance(p) ==
    /\ pc[p] = "invoking"
    /\ Len(invLog[p]) > 0
    /\ IF Len(invLog[p]) < Len(CandidateList(params[p]))
       THEN /\ MayStartNext(p)
            /\ StartCandidate(p, NextCandidate(p), cpLocal[p])
       ELSE /\ Last(p).state = "rejected"
            /\ result' = [result EXCEPT ![p] = Err(ExhaustedError(p))]
            /\ pc' = [pc EXCEPT ![p] = "done"]
            /\ UNCHANGED <<invLog, clients, console, threadWrites>>
    /\ UNCHANGED <<config, checkpointer, checkpointerPromise, promises>>
    /\ UNCHANGED <<params, awaiting, cpLocal>>
    /\ UNCHANGED memVars
    /\ UNCHANGED osVars

\* mutant: a response that fails validation is treated as a failed candidate
FinishFallingBack(p) ==
    /\ pc[p] = "invoking"
    /\ Len(invLog[p]) > 0
    /\ Last(p).state = "resolved"
    /\ LET ps == params[p]
           response == Last(p).response.v
           valid == ps.op = "call"
                    \/ zodParses(ps.outputSchema.v, response.structuredResponse)
       IN  IF ~valid /\ Len(invLog[p]) < Len(CandidateList(ps))
           THEN StartCandidate(p, Len(invLog[p]) + 1, cpLocal[p])
           ELSE /\ result' = [result EXCEPT ![p] =
                      IF ps.op = "call"
                      THEN Ok([text |-> ResponseText(response.messages),
                               messages |-> response.messages])
                      ELSE IF valid THEN Ok([response |-> response.structuredResponse])
                      ELSE Err(ZodError)]
                /\ pc' = [pc EXCEPT ![p] = "done"]
                /\ UNCHANGED <<invLog, clients, console, threadWrites>>
    /\ UNCHANGED <<config, checkpointer, checkpointerPromise, promises>>
    /\ UNCHANGED <<params, awaiting, cpLocal>>
    /\ UNCHANGED memVars
    /\ UNCHANGED osVars

(* `await agent.invoke(...)` returns: build the method's result *)
Finish(p) ==
    /\ pc[p] = "invoking"
    /\ Len(invLog[p]) > 0
    /\ Last(p).state = "resolved"
    /\ LET ps == params[p]
           response == Last(p).response.v
       IN  result' = [result EXCEPT ![p] =
              IF ps.op = "call"
              THEN Ok([text |-> ResponseText(response.messages),
                       messages |-> response.messages])
              ELSE IF zodParses(ps.outputSchema.v, response.structuredResponse)
                   THEN Ok([response |-> response.structuredResponse])
                   ELSE Err(ZodError)]
    /\ pc' = [pc EXCEPT ![p] = "done"]
    /\ UNCHANGED aiVars
    /\ UNCHANGED <<params, awaiting, cpLocal, invLog, clients, console>>
    /\ UNCHANGED memVars
    /\ UNCHANGED osVars

----------------------------------------------------------------------------
(* Specifications *)

Causes == {"import", "setup"}

Step(p, P) ==
    \/ Begin(p, P)
    \/ ResumeCp(p)
    \/ \E k \in 1..(MaxFallbacks + 1) : AttemptFails(p, k)
    \/ \E k \in 1..(MaxFallbacks + 1) : AttemptSucceeds(p, k)
    \/ Advance(p)
    \/ Finish(p)

Construction ==
    \/ \E n \in 1..NumCallers : ConstructResolve(n)
    \/ \E n \in 1..NumCallers, c \in Causes : ConstructReject(n, c)

(* one caller, every shape of request *)
Next ==
    \/ Step(1, AllParams)
    \/ Construction

Spec == Init /\ [][Next]_vars

(* several callers of one instance at once, each with a plain request *)
ConcConfigs ==
    {c \in Configs : ~c.aiModelsFallback.some /\ c.googleGeminiToken.some}

ConcParams ==
    ParamsOf({"call", "getRawAgent"}, {"gpt-4"}, {None}, Optional(ThreadIds),
             {Some(0)}, {NoModelConfig}, Schemas)

InitConc == InitWith(ConcConfigs)

NextConc ==
    \/ \E p \in Callers : Step(p, ConcParams)
    \/ Construction

SpecConc == InitConc /\ [][NextConc]_vars

(* several callers of one instance, every kind of backend *)
MemoryTypes == {"memory", "sqlite", "postgres", "redis", "mongodb"}

CheckpointerConfigs ==
    {[c EXCEPT !.memory = Some(type)] : c \in ConcConfigs, type \in MemoryTypes}

InitCheckpointers == InitWith(CheckpointerConfigs)

SpecCheckpointers == InitCheckpointers /\ [][NextConc]_vars

----------------------------------------------------------------------------
(* AIMemory.getHistory: the history of a thread rebuilt from its snapshots *)

UpperCaseLetters == "ABCDEFGHIJKLMNOPQRSTUVWXYZ"
LowerCaseLetters == "abcdefghijklmnopqrstuvwxyz"

LowerChar(c) ==
    LET at == {i \in 1..Len(UpperCaseLetters) : SubSeq(UpperCaseLetters, i, i) = c}
    IN  IF at = {} THEN c
        ELSE LET i == CHOOSE i \in at : TRUE IN SubSeq(LowerCaseLetters, i, i)

(* String.prototype.toLowerCase *)
RECURSIVE toLowerCase(_)
toLowerCase(s) ==
    IF Len(s) = 0 THEN ""
    ELSE LowerChar(SubSeq(s, 1, 1)) \o toLowerCase(SubSeq(s, 2, Len(s)))

(* String.prototype.replace with a string pattern: the first occurrence only *)
replace(s, pattern, replacement) ==
    LET at == {i \in 1..(Len(s) - Len(pattern) + 1) :
                  SubSeq(s, i, i + Len(pattern) - 1) = pattern}
    IN  IF at = {} THEN s
        ELSE LET i == CHOOSE i \in at : \A k \in at : i <= k
             IN  SubSeq(s, 1, i - 1) \o replacement \o SubSeq(s, i + Len(pattern), Len(s))

(* Array.prototype.join of strings *)
RECURSIVE join(_, _)
join(strings, separator) ==
    IF Len(strings) = 0 THEN ""
    ELSE IF Len(strings) = 1 THEN strings[1]
    ELSE strings[1] \o separator \o join(Tail(strings), separator)

\* content blocks: a bare string, an object with a text, an object without
StringBlock(text) == [t |-> "string", s |-> text]
TextBlock(text) == [t |-> "object", text |-> Some(text)]
ImageBlock == [t |-> "object", text |-> None]
Blocks(b) == [t |-> "array", blocks |-> b]
NoContent == [t |-> "undefined"]

\* a message as getMessageRole and extractContent see it
Msg(role, getType, legacyGetType, constructorName, content) ==
    [null |-> FALSE, role |-> role, getType |-> getType,
     legacyGetType |-> legacyGetType, constructorName |-> constructorName,
     content |-> content]
NullMsg == [null |-> TRUE]

UserMsg == Msg(Some("user"), None, None, Some("Object"), Str("oi"))
AssistantMsg == Msg(Some("Assistant"), None, None, Some("Object"), Str("ola"))
HumanMessageMsg ==
    Msg(None, Some("human"), Some("human"), Some("HumanMessage"),
        Blocks(<<TextBlock("veja"), ImageBlock, StringBlock("fim"), TextBlock("")>>))
AIMessageMsg == Msg(None, None, None, Some("AIMessage"), Str("ok"))
ToolMessageMsg == Msg(None, None, Some("tool"), Some("ToolMessage"), NoContent)
SystemMessageMsg == Msg(None, Some("system"), Some("system"), Some("SystemMessage"), Str("regras"))
DeveloperMsg == Msg(Some("developer"), None, None, Some("Object"), Str("dica"))

\* the messages one more snapshot adds to the thread
Batches ==
    {<<>>, <<UserMsg, SystemMessageMsg>>, <<NullMsg, AssistantMsg, HumanMessageMsg>>,
     <<AIMessageMsg, DeveloperMsg, ToolMessageMsg>>}

(* AIMemory.getMessageRole *)
getMessageRole(msg) ==
    LET role == IF msg.role.some THEN toLowerCase(msg.role.v) ELSE ""
        type == IF msg.getType.some THEN msg.getType.v
                ELSE IF msg.legacyGetType.some THEN msg.legacyGetType.v
                ELSE IF msg.constructorName.some THEN toLowerCase(msg.constructorName.v)
                ELSE ""
        normalized == Trim(replace(toLowerCase(type), "message", ""))
    IN  IF role = "human" \/ role = "user" THEN "human"
        ELSE IF role = "ai" \/ role = "assistant" THEN "ai"
        ELSE IF role = "tool" THEN "tool"
        ELSE IF normalized = "human" \/ normalized = "user" THEN "human"
        ELSE IF normalized = "ai" \/ normalized = "assistant" THEN "ai"
        ELSE IF normalized = "tool" THEN "tool"
        ELSE "system"

\* `.map(block => typeof block === "string" ? block : block?.text ?? "")`
BlockText(block) ==
    IF block.t = "string" THEN block.s
    ELSE IF block.text.some THEN block.text.v ELSE ""

\* `.filter(Boolean)`: the empty strings are dropped
RECURSIVE NonEmptyTexts(_)
NonEmptyTexts(blocks) ==
    IF Len(blocks) = 0 THEN <<>>
    ELSE (IF BlockText(Head(blocks)) = "" THEN <<>> ELSE <<BlockText(Head(blocks))>>)
            \o NonEmptyTexts(Tail(blocks))

(* AIMemory.extractContent *)
extractContent(msg) ==
    LET c == msg.content
    IN  IF c.t = "string" THEN c.s
        ELSE IF c.t = "array" THEN join(NonEmptyTexts(c.blocks), "\n")
        ELSE ""

\* the messages of the model, and their role and content computed once
Messages == UNION {{batch[i] : i \in 1..Len(batch)} : batch \in Batches} \ {NullMsg}
roleOf == [msg \in Messages |-> getMessageRole(msg)]
contentOf == [msg \in Messages |-> extractContent(msg)]

\* mutant: a message classified as system is emitted like the others
EmitsEveryRole(role) == TRUE

\* `if (role === "system") continue`
Emits(role) == role # "system"

\* `snapshot.values?.messages ?? []`
SnapshotMessages(snapshot) ==
    IF snapshot.values.messages.some THEN snapshot.values.messages.v ELSE <<>>

\* `snapshot.createdAt ?? new Date().toISOString()`
CreatedAt(snapshot) ==
    IF snapshot.createdAt.some THEN snapshot.createdAt.v ELSE now

\* the inner loop: the items of messages j.. of one snapshot
RECURSIVE ItemsFrom(_, _, _)
ItemsFrom(snapshotMessages, j, createdAt) ==
    IF j > Len(snapshotMessages) THEN <<>>
    ELSE LET msg == snapshotMessages[j]
             item == IF msg.null \/ ~Emits(roleOf[msg]) THEN <<>>
                     ELSE <<[role |-> roleOf[msg],
                             createdAt |-> createdAt,
                             content |-> contentOf[msg]]>>
         IN  item \o ItemsFrom(snapshotMessages, j + 1, createdAt)

\* mutant: previousMessageCount counts the items emitted, not the messages seen
ExtractFromCountingItems(history, i, previousMessageCount) ==
    LET RECURSIVE Walk(_, _)
        Walk(k, previous) ==
            IF k < 1 THEN <<>>
            ELSE LET items == ItemsFrom(SnapshotMessages(history[k]), previous + 1,
                                        CreatedAt(history[k]))
                 IN  items \o Walk(k - 1, previous + Len(items))
    IN  Walk(i, previousMessageCount)

\* the outer loop: from history[i] down to history[1]
RECURSIVE ExtractFrom(_, _, _)
ExtractFrom(history, i, previousMessageCount) ==
    IF i < 1 THEN <<>>
    ELSE LET snapshotMessages == SnapshotMessages(history[i])
         IN  ItemsFrom(snapshotMessages, previousMessageCount + 1, CreatedAt(history[i]))
                \o ExtractFrom(history, i - 1, Len(snapshotMessages))

\* mutant: every snapshot contributes all of its messages
extractAllOfEverySnapshot(history) ==
    LET RECURSIVE All(_)
        All(i) == IF i < 1 THEN <<>>
                  ELSE ItemsFrom(SnapshotMessages(history[i]), 1, CreatedAt(history[i]))
                          \o All(i - 1)
    IN  All(Len(history))

(* AIMemory.extractMessagesFromHistory *)
extractMessagesFromHistory(history) == ExtractFrom(history, Len(history), 0)

\* graph.getStateHistory(config): the thread's snapshots, newest first,
\* as the objects this graph hands out
getStateHistory(graph) ==
    [i \in 1..Len(snapshots) |->
        [values |-> snapshots[i].values, createdAt |-> snapshots[i].createdAt,
         origin |-> graph.graph]]

(* The getHistory kept under src/packages/ai/src/langchain/checkpointers.ts *)
(* throws when neither a graph nor an agent is at hand; the fallback to the *)
(* checkpointer's list that tests/unit/langchain/checkpointers.test.ts      *)
(* exercises is not under src. list, SnapshotOfTuple and listHistory follow *)
(* section 4.4 of the specification and the shape of the test's tuples.     *)
list(cp) ==
    [i \in 1..Len(snapshots) |->
        [checkpoint |-> [channel_values |-> snapshots[i].values,
                         ts |-> snapshots[i].createdAt],
         origin |-> "checkpointer"]]

SnapshotOfTuple(tuple) ==
    [values |-> tuple.checkpoint.channel_values,
     createdAt |-> tuple.checkpoint.ts,
     origin |-> tuple.origin]

listHistory(cp) == [i \in 1..Len(snapshots) |-> SnapshotOfTuple(list(cp)[i])]

\* mutant: the agent of the instance wins over the graph passed
graphToUseAgentFirst(graph) == IF agent # NoAgent THEN agent ELSE graph

\* `graph ?? this.agent`
graphToUse(graph) == IF graph # NoAgent THEN graph ELSE agent

(* AIMemory.getHistory(threadId, graph); with neither a graph nor an agent *)
(* the history is read through listHistory, where src's version throws     *)
GetHistory(graph) ==
    /\ LET g == graphToUse(graph)
           fullHistory == IF g # NoAgent THEN getStateHistory(g)
                          ELSE listHistory(BuiltCp(0))
       IN  /\ lastHistory' = Some(
                  [graph |-> graph,
                   outcome |-> Ok([fullHistory |-> fullHistory,
                                   messages |-> extractMessagesFromHistory(fullHistory)])])
           /\ memoryCheckpointer' = IF g # NoAgent THEN memoryCheckpointer ELSE BuiltCp(0)
    /\ UNCHANGED <<agent, snapshots, now>>
    /\ UNCHANGED aiVars
    /\ UNCHANGED callVars
    /\ UNCHANGED osVars

(* AIMemory.setAgent(agent) *)
SetAgent ==
    /\ agent = NoAgent
    /\ agent' = Graph("agent")
    /\ UNCHANGED <<memoryCheckpointer, snapshots, now, lastHistory>>
    /\ UNCHANGED aiVars
    /\ UNCHANGED callVars
    /\ UNCHANGED osVars

\* the agent framework saves one more snapshot of the thread: the messages
\* so far and the new ones, stamped or not with the time of the write;
\* lastHistory holds the latest getHistory call made since the last write
WriteSnapshot(batch, stamped) ==
    /\ Len(snapshots) < MaxSnapshots
    /\ LET before == IF snapshots = <<>> THEN <<>> ELSE SnapshotMessages(snapshots[1])
           messages == IF snapshots = <<>> /\ batch = <<>> THEN None
                       ELSE Some(before \o batch)
       IN  snapshots' = <<[values |-> [messages |-> messages],
                          createdAt |-> IF stamped THEN Some(now) ELSE None]>>
                        \o snapshots
    /\ lastHistory' = None
    /\ UNCHANGED <<agent, memoryCheckpointer, now>>
    /\ UNCHANGED aiVars
    /\ UNCHANGED callVars
    /\ UNCHANGED osVars

\* time passes: new Date() reads another instant
Tick ==
    /\ now' \in Instants \ {now}
    /\ UNCHANGED <<agent, memoryCheckpointer, snapshots, lastHistory>>
    /\ UNCHANGED aiVars
    /\ UNCHANGED callVars
    /\ UNCHANGED osVars

MemoryConfigs ==
    {c \in Configs : c.memory = Some("memory") /\ c.checkpointer = NoCp
                      /\ ~c.aiModelsFallback.some /\ c.googleGeminiToken.some}

InitHistory == InitWith(MemoryConfigs)

NextHistory ==
    \/ \E batch \in Batches, stamped \in BOOLEAN : WriteSnapshot(batch, stamped)
    \/ Tick
    \/ SetAgent
    \/ \E graph \in {NoAgent, Graph("graph")} : GetHistory(graph)

SpecHistory == InitHistory /\ [][NextHistory]_vars

(* one caller, every model name, key and modelConfig, no fallback list *)
ResolveModels ==
    {"gpt-5-nano", "gemini-2.5-flash", "openrouter/openai/gpt-5-nano",
     "openrouter/google/gemini-2.5-flash", "unsupported-model", "openrouter",
     "GPT-4", "claude-opus-4.5"}

KeyVals(key) == {None, Some(""), Some(key)}

ModelsConfigs ==
    [memory : Optional({"postgres"}),
     checkpointer : {NoCp},
     aiModelsFallback : {None},
     openAIApiKey : KeyVals("test-openai-key"),
     googleGeminiToken : KeyVals("test-gemini-token"),
     openRouterApiKey : KeyVals("test-openrouter-key")]

ModelsParams ==
    ParamsOf({"call", "getRawAgent"}, ResolveModels, {None}, Optional(ThreadIds),
             {Some(0)}, ModelConfigs, Schemas)

InitModels == InitWith(ModelsConfigs)

NextModels ==
    \/ Step(1, ModelsParams)
    \/ Construction

SpecModels == InitModels /\ [][NextModels]_vars

(* one caller of callStructuredOutput, every schema *)
SchemaModels ==
    {"gpt-4", "gemini-2.5-flash", "openrouter/openai/gpt-5-nano",
     "openrouter/google/gemini-2.5-flash"}

SchemasConfigs ==
    {c \in Configs : ~c.aiModelsFallback.some /\ c.googleGeminiToken.some
                      /\ c.checkpointer = NoCp}

SchemasParams ==
    ParamsOf({"callStructuredOutput"}, SchemaModels, {None}, Optional(ThreadIds),
             {Some(0)}, {NoModelConfig}, AllSchemas)

InitSchemas == InitWith(SchemasConfigs)

NextSchemas ==
    \/ Step(1, SchemasParams)
    \/ Construction

SpecSchemas == InitSchemas /\ [][NextSchemas]_vars

----------------------------------------------------------------------------
(* LangchainAudioTranscription.transcribeWithWhisper, static and called by  *)
(* several callers at once. audio-transcription.ts keeps two ways of doing  *)
(* it: through the OpenAIWhisperAudio loader and a temp file (220-264), and *)
(* through the OpenAI client directly (43-85).                              *)

WhisperKeys == {"sk-A", "sk-B"}
WhisperParams == [openAIApiKey : Optional(WhisperKeys)]
TempFilePath(p) == <<"whisper", p>>

\* what `await loader.load()` settles with
Loads ==
    {Ok(<<>>), Ok(<<[pageContent |-> "texto transcrito"]>>),
     Err([type |-> "api", message |-> "API Error"])}

\* what `await openai.audio.transcriptions.create(...)` settles with
Transcriptions ==
    {Ok(Str("texto transcrito")), Ok([t |-> "object", text |-> "texto transcrito"]),
     Err([type |-> "api", message |-> "API Error"])}

(* extractTextFromDocs: the text, or the error it throws *)
extractTextFromDocs(docs) ==
    IF Len(docs) = 0
    THEN Err([type |-> "transcription",
              message |-> "Nenhum documento foi retornado pela transcrição"])
    ELSE Ok(docs[1].pageContent)

\* mutant: the error of unlinkSync is not caught
cleanupTempFileThrowing(filePath, unlinkThrows) ==
    IF filePath \in files /\ ~unlinkThrows
    THEN [files |-> files \ {filePath}, warn |-> <<>>, thrown |-> None]
    ELSE [files |-> files, warn |-> <<>>,
          thrown |-> IF filePath \in files
                     THEN Some([type |-> "fs", message |-> "EPERM"]) ELSE None]

(* FilesUtils.cleanupTempFile: the files left, the warning, the error thrown *)
cleanupTempFile(filePath, unlinkThrows) ==
    IF filePath \in files
    THEN IF unlinkThrows
         THEN [files |-> files,
               warn |-> <<"Erro ao remover arquivo temporário: EPERM">>,
               thrown |-> None]
         ELSE [files |-> files \ {filePath}, warn |-> <<>>, thrown |-> None]
    ELSE [files |-> files, warn |-> <<>>, thrown |-> None]

\* `if (openAIApiKey) process.env.OPENAI_API_KEY = openAIApiKey`
SetApiKey(ps) == IF Truthy(ps.openAIApiKey) THEN ps.openAIApiKey ELSE env

(* lines 225-259: the temp file, the key, the loader and its client, which *)
(* takes its key from the environment when it is constructed                *)
LoaderBegin(p, ps) ==
    /\ pc[p] = "idle"
    /\ params' = [params EXCEPT ![p] = ps]
    /\ files' = files \cup {TempFilePath(p)}
    /\ env' = SetApiKey(ps)
    /\ clients' = [clients EXCEPT ![p] = <<Client("OpenAI", [apiKey |-> SetApiKey(ps)])>>]
    /\ awaiting' = [awaiting EXCEPT ![p] = [kind |-> "load", tempFilePath |-> TempFilePath(p)]]
    /\ pc' = [pc EXCEPT ![p] = "loading"]
    /\ UNCHANGED <<cpLocal, invLog, console, result>>
    /\ UNCHANGED aiVars
    /\ UNCHANGED memVars

(* lines 259-263: load settles, the try block ends, the finally block runs; *)
(* an error thrown by the finally block replaces the outcome of the try     *)
LoaderSettles(p, load, unlinkThrows) ==
    /\ pc[p] = "loading"
    /\ LET tried == IF load.status = "ok" THEN extractTextFromDocs(load.value) ELSE load
           cleanup == cleanupTempFile(awaiting[p].tempFilePath, unlinkThrows)
       IN  /\ files' = cleanup.files
           /\ console' = [console EXCEPT ![p] = @ \o cleanup.warn]
           /\ result' = [result EXCEPT ![p] =
                  IF cleanup.thrown.some THEN Err(cleanup.thrown.v) ELSE tried]
    /\ invLog' = [invLog EXCEPT ![p] = <<load>>]
    /\ awaiting' = [awaiting EXCEPT ![p] = [kind |-> "nothing"]]
    /\ pc' = [pc EXCEPT ![p] = "done"]
    /\ UNCHANGED <<params, cpLocal, clients, env>>
    /\ UNCHANGED aiVars
    /\ UNCHANGED memVars

(* lines 48-56: the key, up to `await toFile(buffer, fileName)` *)
ClientBegin(p, ps) ==
    /\ pc[p] = "idle"
    /\ params' = [params EXCEPT ![p] = ps]
    /\ env' = SetApiKey(ps)
    /\ awaiting' = [awaiting EXCEPT ![p] = [kind |-> "toFile"]]
    /\ pc' = [pc EXCEPT ![p] = "toFile"]
    /\ UNCHANGED <<cpLocal, invLog, clients, console, result, files>>
    /\ UNCHANGED aiVars
    /\ UNCHANGED memVars

(* lines 58-82: `new OpenAI()` takes its key from the environment, and the *)
(* request is sent                                                         *)
ClientRequest(p) ==
    /\ pc[p] = "toFile"
    /\ clients' = [clients EXCEPT ![p] = <<Client("OpenAI", [apiKey |-> env])>>]
    /\ awaiting' = [awaiting EXCEPT ![p] = [kind |-> "create"]]
    /\ pc' = [pc EXCEPT ![p] = "transcribing"]
    /\ UNCHANGED <<params, cpLocal, invLog, console, result>>
    /\ UNCHANGED aiVars
    /\ UNCHANGED memVars
    /\ UNCHANGED osVars

(* lines 80-84: the request settles *)
ClientSettles(p, response) ==
    /\ pc[p] = "transcribing"
    /\ result' = [result EXCEPT ![p] =
          IF response.status = "error" THEN response
          ELSE IF response.value.t = "string" THEN Ok(response.value.s)
          ELSE Ok(response.value.text)]
    /\ awaiting' = [awaiting EXCEPT ![p] = [kind |-> "nothing"]]
    /\ pc' = [pc EXCEPT ![p] = "done"]
    /\ UNCHANGED <<params, cpLocal, invLog, clients, console>>
    /\ UNCHANGED aiVars
    /\ UNCHANGED memVars
    /\ UNCHANGED osVars

NextWhisper ==
    \/ \E p \in Callers, ps \in WhisperParams : LoaderBegin(p, ps)
    \/ \E p \in Callers, load \in Loads, unlinkThrows \in BOOLEAN :
            LoaderSettles(p, load, unlinkThrows)
    \/ \E p \in Callers, ps \in WhisperParams : ClientBegin(p, ps)
    \/ \E p \in Callers : ClientRequest(p)
    \/ \E p \in Callers, response \in Transcriptions : ClientSettles(p, response)

SpecWhisper == InitHistory /\ [][NextWhisper]_vars

----------------------------------------------------------------------------
(* AIMessages.humanImage and humanAudio, with the MIME detection of          *)
(* ImageUtils and AudioUtils. A buffer is its first bytes; a byte past the   *)
(* end reads as undefined, here -1.                                          *)

Buffers ==
    {<<255, 216, 255, 224>>,                                     \* JPEG
     <<137, 80, 78, 71, 13, 10, 26, 10>>,                        \* PNG
     <<82, 73, 70, 70, 0, 0, 0, 0, 87, 65, 86, 69>>,             \* RIFF....WAVE
     <<73, 68, 51, 4>>,                                          \* ID3
     <<0, 0, 0, 0>>}
Filenames ==
    Optional({"", "clip.wav", "FOTO.PNG", "audio", "wav", "notas.constructor"})
Texts == Optional({"", "Descreva"})

\* keys every object literal inherits from Object.prototype
ObjectPrototypeKeys ==
    {"constructor", "toString", "valueOf", "hasOwnProperty", "isPrototypeOf",
     "toLocaleString", "propertyIsEnumerable", "__proto__"}

\* mimeTypeMap[extension]: an own key, an inherited one, or undefined ("")
MapLookup(map, key) ==
    IF key \in DOMAIN map THEN map[key]
    ELSE IF key \in ObjectPrototypeKeys THEN "[inherited " \o key \o "]"
    ELSE ""

\* filename.toLowerCase().split(".").pop()
LastPart(filename) ==
    LET name == toLowerCase(filename)
        dots == {i \in 1..Len(name) : SubSeq(name, i, i) = "."}
    IN  IF dots = {} THEN name
        ELSE SubSeq(name, (CHOOSE i \in dots : \A k \in dots : k <= i) + 1, Len(name))

\* bytes[offset], bytes[offset + 1], ... === the given values
BytesAt(bytes, offset, values) ==
    \A i \in 1..Len(values) :
        (IF offset + i <= Len(bytes) THEN bytes[offset + i] ELSE -1) = values[i]

(* ImageUtils.detectImageMimeType *)
detectImageMimeType(buffer, filename) ==
    LET mimeTypeMap == [jpg |-> "image/jpeg", jpeg |-> "image/jpeg", png |-> "image/png",
                        gif |-> "image/gif", webp |-> "image/webp"]
        mimeFromExtension ==
            IF ~Truthy(filename) THEN "" ELSE MapLookup(mimeTypeMap, LastPart(filename.v))
        mimeFromBuffer ==
            IF BytesAt(buffer, 0, <<255, 216, 255>>) THEN "image/jpeg"
            ELSE IF BytesAt(buffer, 0, <<137, 80, 78, 71, 13, 10, 26, 10>>) THEN "image/png"
            ELSE IF BytesAt(buffer, 0, <<71, 73, 70, 56>>) THEN "image/gif"
            ELSE IF BytesAt(buffer, 0, <<82, 73, 70, 70>>)
                    /\ BytesAt(buffer, 8, <<87, 69, 66, 80>>) THEN "image/webp"
            ELSE ""
    IN  IF mimeFromExtension # "" THEN mimeFromExtension
        ELSE IF mimeFromBuffer # "" THEN mimeFromBuffer
        ELSE "image/jpeg"

(* AudioUtils.detectAudioMimeType *)
detectAudioMimeType(buffer, filename) ==
    LET mimeTypeMap == [mp3 |-> "audio/mp3", mpeg |-> "audio/mp3", wav |-> "audio/wav",
                        wave |-> "audio/wave", mp4 |-> "audio/mp4", m4a |-> "audio/m4a",
                        webm |-> "audio/webm", ogg |-> "audio/ogg", flac |-> "audio/flac",
                        aac |-> "audio/aac", opus |-> "audio/opus"]
        mimeFromExtension ==
            IF ~Truthy(filename) THEN "" ELSE MapLookup(mimeTypeMap, LastPart(filename.v))
        mimeFromBuffer ==
            IF \/ \E b \in {251, 243, 242} : BytesAt(buffer, 0, <<255, b>>)
               \/ BytesAt(buffer, 0, <<73, 68, 51>>) THEN "audio/mp3"
            ELSE IF BytesAt(buffer, 0, <<82, 73, 70, 70>>)
                    /\ BytesAt(buffer, 8, <<87, 65, 86, 69>>) THEN "audio/wav"
            ELSE IF /\ BytesAt(buffer, 4, <<102, 116, 121, 112>>)
                    /\ \/ BytesAt(buffer, 8, <<105, 115, 111, 109>>)
                       \/ BytesAt(buffer, 8, <<77, 52, 65>>) THEN "audio/mp4"
            ELSE IF BytesAt(buffer, 0, <<26, 69, 223, 163>>) THEN "audio/webm"
            ELSE IF BytesAt(buffer, 0, <<79, 103, 103, 83>>) THEN "audio/ogg"
            ELSE IF BytesAt(buffer, 0, <<102, 76, 97, 67>>) THEN "audio/flac"
            ELSE ""
    IN  IF mimeFromExtension # "" THEN mimeFromExtension
        ELSE IF mimeFromBuffer # "" THEN mimeFromBuffer
        ELSE "audio/mp3"

HumanMessage(content) == [type |-> "human", content |-> content]

\* mutant: the image block is pushed before the text block
humanImageMediaFirst(options) ==
    HumanMessage(
        <<[type |-> "image", source_type |-> "base64",
           data |-> [base64 |-> options.buffer],
           mime_type |-> IF options.mimeType.some THEN options.mimeType.v
                         ELSE detectImageMimeType(options.buffer, options.filename)]>>
        \o (IF Truthy(options.text)
            THEN <<[type |-> "text", text |-> options.text.v]>> ELSE <<>>))

(* AIMessages.humanImage *)
humanImage(options) ==
    HumanMessage(
        (IF Truthy(options.text)
         THEN <<[type |-> "text", text |-> options.text.v]>> ELSE <<>>)
        \o <<[type |-> "image", source_type |-> "base64",
              data |-> [base64 |-> options.buffer],
              mime_type |-> IF options.mimeType.some THEN options.mimeType.v
                            ELSE detectImageMimeType(options.buffer, options.filename)]>>)

(* AIMessages.createHumanMessageWithAudio: for the openai provider the    *)
(* message made of the transcription, or the error; else the audio block  *)
createHumanMessageWithAudio(options, transcription) ==
    IF options.provider = "openai"
    THEN IF ~Truthy(options.openAIApiKey)
         THEN Err([type |-> "config", message |-> "openAIApiKey é necessária quando provider é 'openai'"])
         ELSE IF transcription.status = "error"
         THEN Err([type |-> "transcription",
                   message |-> "Falha na transcrição prévia com Whisper para OpenAI: "
                                 \o transcription.error.message])
         ELSE Ok(HumanMessage(Str(
                (IF Truthy(options.text) THEN options.text.v \o "\n\n" ELSE "")
                    \o "Áudio transcrito: " \o transcription.value)))
    ELSE Ok(HumanMessage(
            (IF Truthy(options.text)
             THEN <<[type |-> "text", text |-> options.text.v]>> ELSE <<>>)
            \o <<[type |-> "audio", source_type |-> "base64",
                  data |-> [base64 |-> options.buffer],
                  mime_type |-> IF Truthy(options.mimeType) THEN options.mimeType.v
                                ELSE detectAudioMimeType(options.buffer, options.filename)]>>))

MessageOptions(builder, mimeTypes, providers) ==
    [builder : {builder}, text : Texts, buffer : Buffers, filename : Filenames,
     mimeType : Optional(mimeTypes), provider : providers,
     openAIApiKey : Optional(WhisperKeys)]

(* a caller builds a human message with an image *)
HumanImage(p, options) ==
    /\ pc[p] = "idle"
    /\ params' = [params EXCEPT ![p] = options]
    /\ result' = [result EXCEPT ![p] = Ok(humanImage(options))]
    /\ pc' = [pc EXCEPT ![p] = "done"]
    /\ UNCHANGED <<awaiting, cpLocal, invLog, clients, console>>
    /\ UNCHANGED aiVars
    /\ UNCHANGED memVars
    /\ UNCHANGED osVars

(* a caller builds a human message with an audio; the transcription the *)
(* openai provider awaits is taken as one step                          *)
HumanAudio(p, options, transcription) ==
    /\ pc[p] = "idle"
    /\ params' = [params EXCEPT ![p] = options]
    /\ result' = [result EXCEPT ![p] = createHumanMessageWithAudio(options, transcription)]
    /\ pc' = [pc EXCEPT ![p] = "done"]
    /\ UNCHANGED <<awaiting, cpLocal, invLog, clients, console>>
    /\ UNCHANGED aiVars
    /\ UNCHANGED memVars
    /\ UNCHANGED osVars

NextMessages ==
    \/ \E options \in MessageOptions("humanImage", {"image/gif"}, {"auto"}) :
            HumanImage(1, options)
    \/ \E options \in MessageOptions("humanAudio", {"audio/ogg"}, {"auto", "gemini", "openai"}),
           transcription \in {Ok("texto transcrito"), Err([type |-> "api", message |-> "API Error"])} :
            HumanAudio(1, options, transcription)

SpecMessages == InitHistory /\ [][NextMessages]_vars

----------------------------------------------------------------------------
(* Claims *)

Invoking(p) == params[p].op \in {"call", "callStructuredOutput"}
Persistent == config.checkpointer # NoCp \/ config.memory.some
Resolved(p) == {k \in 1..Len(invLog[p]) : invLog[p][k].state = "resolved"}
AllRejected(p) == \A k \in 1..Len(invLog[p]) : invLog[p][k].state = "rejected"

\* the fallback list a request is entitled to: its own, else the constructor's
ExpectedFallbacks(p) ==
    IF params[p].aiModelsFallback.some THEN params[p].aiModelsFallback.v
    ELSE IF config.aiModelsFallback.some THEN config.aiModelsFallback.v
    ELSE <<>>

\* every candidate was tried and every one of them failed
Exhausted(p) ==
    /\ Invoking(p)
    /\ pc[p] = "done"
    /\ Len(invLog[p]) = 1 + Len(ExpectedFallbacks(p))
    /\ AllRejected(p)

C4_ThreadIdCheckedFirst ==
    \A p \in Callers :
        (pc[p] # "idle" /\ Persistent /\ ~params[p].threadId.some) =>
            /\ pc[p] = "done"
            /\ result[p] = Err(ThreadIdError)
            /\ clients[p] = <<>>
            /\ invLog[p] = <<>>
            /\ promises = <<>>
            /\ checkpointerPromise = 0

C4_Witness ==
    /\ config.memory = Some("postgres")
    /\ config.checkpointer = NoCp
    /\ params[1].op = "getRawAgent"
    /\ ~params[1].threadId.some
    /\ result[1] = Err(ThreadIdError)

\* C5: whatever the interleaving of the callers, at most one checkpointer
\* construction is ever started on an instance, and every caller that got a
\* checkpointer from getCheckpointer got the same one, the one the instance
\* holds and the one its agents were created with.
C5_SingleFlight ==
    /\ Len(promises) <= 1
    /\ \A p \in Callers :
          cpLocal[p] # NoCp =>
              /\ cpLocal[p] = checkpointer
              /\ \A q \in Callers : cpLocal[q] # NoCp => cpLocal[q] = cpLocal[p]
              /\ \A k \in 1..Len(invLog[p]) :
                    invLog[p][k].agent.checkpointer = cpLocal[p]

C5_Witness ==
    /\ config.memory = Some("postgres")
    /\ config.checkpointer = NoCp
    /\ \A p \in Callers : cpLocal[p] = BuiltCp(1) /\ pc[p] = "invoking"

\* C6: once an invocation of callStructuredOutput has resolved with a value
\* the caller's schema rejects, no invocation is in flight or started any
\* more (no retry, no fallback candidate) and the method ends with the
\* validation error.
C6_ValidationErrorIsFinal ==
    \A p \in Callers : \A k \in Resolved(p) :
        (/\ params[p].op = "callStructuredOutput"
         /\ ~zodParses(params[p].outputSchema.v,
                       invLog[p][k].response.v.structuredResponse)) =>
            /\ k = Len(invLog[p])
            /\ InFlight(p) = {}
            /\ Len(clients[p]) = k
            /\ pc[p] = "done" => result[p] = Err(ZodError)

C6_Witness ==
    /\ params[1].op = "callStructuredOutput"
    /\ pc[1] = "done"
    /\ result[1] = Err(ZodError)
    /\ Len(invLog[1]) = 1
    /\ Len(CandidateList(params[1])) = 3
    /\ invLog[1][1].response.v.structuredResponse.t = "object"

NonEmptyString(c) == c.t = "string" /\ c.s # ""
HasVisibleChar(c) ==
    c.t = "string" /\ \E i \in 1..Len(c.s) : SubSeq(c.s, i, i) \notin Whitespace

\* C7 as stated: the text is the last message's content exactly when that
\* content is a non-empty string, and the placeholder otherwise.
C7_Original ==
    \A p \in Callers :
        (params[p].op = "call" /\ pc[p] = "done" /\ Resolved(p) # {}) =>
            LET c == LastContent(Last(p).response.v.messages)
            IN  /\ result[p].status = "ok"
                /\ result[p].value.text = IF NonEmptyString(c) THEN c.s ELSE Placeholder

\* C7 amended: the text is the last message's content exactly when that
\* content is a string with a character that is not whitespace; for every
\* other content (whitespace only included) it is the placeholder; the call
\* never raises.
C7_TextOrPlaceholder ==
    \A p \in Callers :
        (params[p].op = "call" /\ pc[p] = "done" /\ Resolved(p) # {}) =>
            LET c == LastContent(Last(p).response.v.messages)
            IN  /\ result[p].status = "ok"
                /\ result[p].value.text = IF HasVisibleChar(c) THEN c.s ELSE Placeholder

C7_Witness ==
    /\ params[1].op = "call"
    /\ pc[1] = "done"
    /\ Resolved(1) # {}
    /\ LastContent(Last(1).response.v.messages) = Str(" ")
    /\ result[1].value.text = Placeholder

RECURSIVE SumAttempts(_)
SumAttempts(log) ==
    IF log = <<>> THEN 0 ELSE Head(log).attempts + SumAttempts(Tail(log))

C10_SameCheckpointerAndThread ==
    \A p \in Callers :
        (Persistent /\ params[p].threadId.some) =>
            /\ \A k \in 1..Len(invLog[p]) :
                  /\ invLog[p][k].agent.checkpointer # NoCp
                  /\ invLog[p][k].agent.checkpointer = checkpointer
                  /\ invLog[p][k].thread_id = Some(params[p].threadId.v)
            /\ threadWrites[params[p].threadId.v] >=
                  Len(invLog[p]) + Cardinality(Resolved(p))

C10_Witness ==
    /\ config.memory = Some("postgres")
    /\ params[1].threadId = Some("thread-123")
    /\ Len(invLog[1]) = 2
    /\ invLog[1][1].state = "rejected"
    /\ invLog[1][2].agent.checkpointer = BuiltCp(1)
    /\ threadWrites["thread-123"] = 2

\* C11: when both checkpointer and memory are given to the constructor, no
\* backend is ever constructed from the memory configuration, and every
\* caller that got past getCheckpointer holds the explicit checkpointer, with
\* which every one of its agents was created.
C11_ExplicitCheckpointerWins ==
    (config.checkpointer # NoCp /\ config.memory.some) =>
        /\ promises = <<>>
        /\ checkpointerPromise = 0
        /\ checkpointer = ExplicitCp
        /\ \A p \in Callers :
              /\ pc[p] \in {"invoking"} => cpLocal[p] = ExplicitCp
              /\ \A k \in 1..Len(invLog[p]) :
                    invLog[p][k].agent.checkpointer = ExplicitCp
              /\ (pc[p] = "done" /\ result[p].status = "ok"
                     /\ params[p].op = "getRawAgent")
                    => result[p].value.checkpointer = ExplicitCp

C11_Witness ==
    /\ config.checkpointer = ExplicitCp
    /\ config.memory = Some("postgres")
    /\ Len(invLog[1]) = 2
    /\ invLog[1][2].agent.checkpointer = ExplicitCp
    /\ invLog[1][2].state = "resolved"

\* the caller's method has called getModel for its model
Resolution(p) ==
    /\ pc[p] \in {"invoking", "done"}
    /\ result[p] # Err(ThreadIdError)
    /\ ~(result[p].status = "error" /\ result[p].error.type = "construct")

Built(p) == clients[p] # <<>>

\* C12: the provider is decided by the prefix of the name alone: for a gpt
\* name the only client ever built is the OpenAI one (and the only
\* resolution error the OpenAI key error), for a gemini name the Google one,
\* for an openrouter/ name the OpenRouter one (base URL set, the prefix
\* stripped from the model); for every other name resolution fails with
\* "Model not supported" and no client is built.
C12_PrefixAlone ==
    \A p \in Callers :
        Resolution(p) =>
            LET m == params[p].aiModel
                c == clients[p][1]
            IN  /\ Len(clients[p]) <= 1
                /\ StartsWith(m, "gpt") =>
                      IF Built(p)
                      THEN /\ c.provider = "ChatOpenAI"
                           /\ c.options.baseURL = None
                           /\ c.options.model = m
                           /\ c.options.apiKey = config.openAIApiKey
                      ELSE result[p] = Err(ApiKeyError("OpenAI"))
                /\ StartsWith(m, "gemini") =>
                      IF Built(p)
                      THEN /\ c.provider = "ChatGoogleGenerativeAI"
                           /\ c.options.model = m
                           /\ c.options.apiKey = config.googleGeminiToken
                      ELSE result[p] = Err(ApiKeyError("Google Gemini"))
                /\ StartsWith(m, "openrouter/") =>
                      IF Built(p)
                      THEN /\ c.provider = "ChatOpenAI"
                           /\ c.options.baseURL = Some(OpenRouterBaseURL)
                           /\ "openrouter/" \o c.options.model = m
                           /\ c.options.apiKey = config.openRouterApiKey
                      ELSE result[p] = Err(ApiKeyError("OpenRouter"))
                /\ (~StartsWith(m, "gpt") /\ ~StartsWith(m, "gemini")
                       /\ ~StartsWith(m, "openrouter/")) =>
                      /\ ~Built(p)
                      /\ invLog[p] = <<>>
                      /\ result[p].status = "error"
                      /\ result[p].error.message = "Model not supported"

C12_Witness ==
    /\ params[1].aiModel = "openrouter/openai/gpt-5-nano"
    /\ config.openAIApiKey = Some("test-openai-key")
    /\ Resolution(1)
    /\ Built(1)
    /\ clients[1][1].options.model = "openai/gpt-5-nano"

\* the key getModel hands to the provider of a model name
KeyFor(m) ==
    IF StartsWith(m, "gpt") THEN config.openAIApiKey
    ELSE IF StartsWith(m, "gemini") THEN config.googleGeminiToken
    ELSE config.openRouterApiKey

ProviderName(m) ==
    IF StartsWith(m, "gpt") THEN "OpenAI"
    ELSE IF StartsWith(m, "gemini") THEN "Google Gemini"
    ELSE "OpenRouter"

Supported(m) ==
    StartsWith(m, "gpt") \/ StartsWith(m, "gemini") \/ StartsWith(m, "openrouter/")

\* C13: when the key of the model's provider was not supplied (left out, or
\* the empty string), resolution fails with "<Provider> API key is not
\* passed in the model parameters", no client is built and no agent invoked.
C13_MissingKey ==
    \A p \in Callers :
        (/\ Resolution(p)
         /\ Supported(params[p].aiModel)
         /\ (~KeyFor(params[p].aiModel).some \/ KeyFor(params[p].aiModel) = Some(""))) =>
            /\ pc[p] = "done"
            /\ result[p].status = "error"
            /\ result[p].error.message =
                  ProviderName(params[p].aiModel)
                      \o " API key is not passed in the model parameters"
            /\ clients[p] = <<>>
            /\ invLog[p] = <<>>

C13_Witness ==
    /\ params[1].aiModel = "gpt-5-nano"
    /\ config.openAIApiKey = None
    /\ config.openRouterApiKey = Some("test-openrouter-key")
    /\ result[1] = Err(ApiKeyError("OpenAI"))

C15_MaxTokensTemperatureVerbatim ==
    \A p \in Callers :
        (Resolution(p) /\ Built(p)) =>
            /\ clients[p][1].options.maxTokens = params[p].modelConfig.maxTokens
            /\ clients[p][1].options.temperature = params[p].modelConfig.temperature

\* a field that may be left out of the object: .optional() somewhere in its chain
MayBeAbsent(field) == FieldAccepts(field, "absent")

\* C16: for a gpt or openrouter/openai/ model the schema handed to the agent
\* has, for every top-level field the caller's schema lets be absent, a
\* field that must be present and accepts the original type or null, and
\* every other field as it was; for any other model it is the caller's schema.
C16_OptionalBecomesNullable ==
    \A p \in Callers : \A k \in 1..Len(invLog[p]) :
        (params[p].op = "callStructuredOutput" /\ params[p].outputSchema.v.kind = "object") =>
            LET orig == params[p].outputSchema.v
                sent == invLog[p][k].agent.responseFormat.v
                m == invLog[p][k].agent.aiModel
            IN  IF StartsWith(m, "gpt") \/ StartsWith(m, "openrouter/openai/")
                THEN \A f \in Fields :
                        IF MayBeAbsent(orig.shape[f])
                        THEN /\ ~MayBeAbsent(sent.shape[f])
                             /\ FieldAccepts(sent.shape[f], orig.shape[f].type)
                             /\ FieldAccepts(sent.shape[f], "null")
                        ELSE sent.shape[f] = orig.shape[f]
                ELSE sent = orig

\* the type MessageRole of a history item
MessageRoles == {"human", "ai", "tool"}

\* getHistory has returned since the last write
Returned == lastHistory.some /\ lastHistory.v.outcome.status = "ok"

\* the messages of the newest snapshot of the thread
Latest == IF snapshots = <<>> THEN <<>> ELSE SnapshotMessages(snapshots[1])

\* the positions of Latest that hold a message of a role a history item has
Kept == {j \in 1..Len(Latest) : ~Latest[j].null /\ roleOf[Latest[j]] \in MessageRoles}

\* the oldest snapshot that holds a message at position j
FirstSeenIn(j) ==
    CHOOSE i \in 1..Len(snapshots) :
        /\ Len(SnapshotMessages(snapshots[i])) >= j
        /\ \A k \in (i + 1)..Len(snapshots) : Len(SnapshotMessages(snapshots[k])) < j

\* what a caller of getHistory can tell apart in a result
Output(r) ==
    [messages |-> r.messages,
     fullHistory |-> [i \in 1..Len(r.fullHistory) |->
                        [values |-> r.fullHistory[i].values,
                         createdAt |-> r.fullHistory[i].createdAt]]]

\* C17: the messages of a history are those of the thread from the oldest
\* snapshot to the newest, each one once, tagged with the creation time of
\* the first snapshot that holds it, oldest first; fullHistory keeps the
\* snapshots newest first, as they were read.
C17_OldestToNewest ==
    Returned =>
        LET r == lastHistory.v.outcome.value
            items == r.messages
        IN  /\ Len(r.fullHistory) = Len(snapshots)
            /\ \A i \in 1..Len(snapshots) :
                    /\ r.fullHistory[i].values = snapshots[i].values
                    /\ r.fullHistory[i].createdAt = snapshots[i].createdAt
            /\ Len(items) = Cardinality(Kept)
            /\ \A j \in Kept :
                    LET n == Cardinality({k \in Kept : k <= j})
                        first == snapshots[FirstSeenIn(j)]
                    IN  /\ items[n].role = roleOf[Latest[j]]
                        /\ items[n].content = contentOf[Latest[j]]
                        /\ first.createdAt.some => items[n].createdAt = first.createdAt.v

C17_Witness ==
    /\ Returned
    /\ Len(snapshots) = 2
    /\ snapshots[1].createdAt.some /\ snapshots[2].createdAt.some
    /\ snapshots[1].createdAt # snapshots[2].createdAt
    /\ LET items == lastHistory.v.outcome.value.messages
       IN  /\ Len(items) = 3
           /\ items[1].createdAt = snapshots[2].createdAt.v
           /\ items[2].createdAt = snapshots[1].createdAt.v
           /\ items[3].createdAt = snapshots[1].createdAt.v

\* C18: two calls of getHistory with no write between them return the same
\* output, whatever the snapshots are, also when a snapshot has no creation
\* time.
C18_SameOutputTwice ==
    [][(Returned /\ Returned' /\ snapshots' = snapshots) =>
            Output(lastHistory'.v.outcome.value) = Output(lastHistory.v.outcome.value)]_vars

\* C19: every item of a history has the role human, ai or tool; a message
\* classified as system gives no item, and the messages after it give one
\* item each.
C19_NoSystemItems ==
    Returned =>
        LET items == lastHistory.v.outcome.value.messages
        IN  /\ \A n \in 1..Len(items) : items[n].role \in MessageRoles
            /\ \A msg \in Messages :
                    Cardinality({n \in 1..Len(items) : items[n].content = contentOf[msg]})
                        = IF roleOf[msg] = "system" THEN 0
                          ELSE Cardinality({j \in 1..Len(Latest) : Latest[j] = msg})

C19_Witness ==
    /\ Returned
    /\ Len(snapshots) = 2
    /\ LET old == SnapshotMessages(snapshots[2])
       IN  /\ Len(old) = 2
           /\ roleOf[old[2]] = "system"
           /\ Len(Latest) = 5
           /\ roleOf[Latest[4]] = "system"
           /\ Len(lastHistory.v.outcome.value.messages) = 3

\* the source a call of getHistory has to read: the graph passed, else the
\* agent of the instance, else the checkpointer
SourceFor(graph) ==
    IF graph # NoAgent THEN graph.graph
    ELSE IF agent # NoAgent THEN agent.graph
    ELSE "checkpointer"

C24_PassesThroughUnchanged ==
    \A p \in Callers : \A k \in 1..Len(invLog[p]) :
        params[p].op = "callStructuredOutput" =>
            LET orig == params[p].outputSchema.v
                sent == invLog[p][k].agent.responseFormat.v
                m == invLog[p][k].agent.aiModel
            IN  (/\ StartsWith(m, "gpt") \/ StartsWith(m, "openrouter/openai/")
                 /\ orig.kind = "object" => \A f \in Fields : ~MayBeAbsent(orig.shape[f]))
                    => sent = orig

\* C26: for a gpt or openrouter/openai/ model, a call of callStructuredOutput
\* whose invocation resolved with a structured response that satisfies the
\* schema handed to the agent ends with that response as its result.
C26_NormalizedResponseIsReturned ==
    \A p \in Callers :
        (/\ params[p].op = "callStructuredOutput"
         /\ pc[p] = "done"
         /\ Len(invLog[p]) > 0
         /\ Last(p).state = "resolved"
         /\ StartsWith(Last(p).agent.aiModel, "gpt")
                \/ StartsWith(Last(p).agent.aiModel, "openrouter/openai/")
         /\ zodParses(Last(p).agent.responseFormat.v,
                      Last(p).response.v.structuredResponse)) =>
            result[p] = Ok([response |-> Last(p).response.v.structuredResponse])

\* the messages of a list that are not classified as system (nor missing)
RECURSIVE WithoutSystem(_)
WithoutSystem(messages) ==
    IF Len(messages) = 0 THEN <<>>
    ELSE (IF Head(messages).null \/ roleOf[Head(messages)] = "system" THEN <<>>
          ELSE <<Head(messages)>>) \o WithoutSystem(Tail(messages))

\* C28: for a thread whose snapshots only ever append messages, the items of
\* the reconstructed history are the messages of the newest snapshot without
\* those classified as system: the same messages in the same order, each
\* once, and never more items than the newest snapshot has messages.
C28_EqualsNewestWithoutSystem ==
    Returned =>
        LET items == lastHistory.v.outcome.value.messages
            expected == WithoutSystem(Latest)
        IN  /\ Len(items) = Len(expected)
            /\ Len(items) <= Len(Latest)
            /\ \A n \in 1..Len(expected) :
                    /\ items[n].role = roleOf[expected[n]]
                    /\ items[n].content = contentOf[expected[n]]

C28_Witness ==
    /\ Returned
    /\ Len(snapshots) = 2
    /\ Len(SnapshotMessages(snapshots[2])) = 3
    /\ Len(Latest) = 6
    /\ LET items == lastHistory.v.outcome.value.messages
       IN  /\ Len(items) = 4
           /\ items[1].role = "ai" /\ items[2].role = "human"
           /\ items[3].role = "ai" /\ items[4].role = "tool"

\* C29: once the construction of the checkpointer has failed, no second
\* construction is started, the instance holds no checkpointer and no caller
\* gets one, and every call that reached getCheckpointer ends with the
\* error of that one construction.
C29_FailedConstructionIsFinal ==
    \A n \in 1..Len(promises) :
        promises[n].state = "rejected" =>
            /\ Len(promises) = 1
            /\ checkpointerPromise = n
            /\ checkpointer = NoCp
            /\ \A p \in Callers :
                    /\ cpLocal[p] = NoCp
                    /\ invLog[p] = <<>>
                    /\ pc[p] \in {"idle", "awaitCp", "done"}
                    /\ (pc[p] = "done" /\ Truthy(params[p].threadId)) =>
                            result[p] = Err(promises[n].error)

C29_Witness ==
    /\ Len(promises) = 1
    /\ promises[1].state = "rejected"
    /\ \A p \in Callers :
            /\ pc[p] = "done"
            /\ Truthy(params[p].threadId)
            /\ result[p] = Err(promises[1].error)

\* String.prototype.includes
Includes(s, part) ==
    \E i \in 1..(Len(s) - Len(part) + 1) : SubSeq(s, i, i + Len(part) - 1) = part

\* C22: when the driver package of the configured backend cannot be loaded,
\* the call fails with an error whose message names the package of that
\* backend: sqlite, postgres, redis or mongodb.
C22_NamesTheMissingPackage ==
    \A p \in Callers :
        (/\ result[p].status = "error"
         /\ result[p].error.type = "construct"
         /\ result[p].error.cause = "import") =>
            /\ config.memory.v \in {"sqlite", "postgres", "redis", "mongodb"}
            /\ Includes(result[p].error.message,
                        "@langchain/langgraph-checkpoint-" \o config.memory.v)

C22_Witness ==
    /\ config.memory = Some("redis")
    /\ result[1].status = "error"
    /\ result[1].error.type = "construct"
    /\ result[1].error.cause = "import"
    /\ Includes(result[1].error.message, "\"@langchain/langgraph-checkpoint-redis\"")

\* C30: a call fails with the error that names a missing package only when
\* the driver package could not be loaded.
C30_OnlyWhenDriverMissing ==
    \A p \in Callers :
        (result[p].status = "error" /\ result[p].error.type = "construct") =>
            result[p].error.cause = "import"

\* C21: when a transcription through the loader has ended, whether with a
\* text or with an error, its temp file is gone or the failure to remove it
\* was logged, and the call ended with the transcription's own text or error.
C21_TempFileRemoved ==
    \A p \in Callers :
        (pc[p] = "done" /\ invLog[p] # <<>>) =>
            LET load == invLog[p][1]
            IN  /\ TempFilePath(p) \notin files \/ Len(console[p]) = 1
                /\ result[p] =
                      IF load.status = "error" THEN load
                      ELSE IF load.value = <<>>
                      THEN Err([type |-> "transcription",
                                message |-> "Nenhum documento foi retornado pela transcrição"])
                      ELSE Ok(load.value[1].pageContent)

C21_Witness ==
    /\ pc[1] = "done"
    /\ invLog[1] # <<>>
    /\ invLog[1][1].status = "error"
    /\ TempFilePath(1) \in files
    /\ Len(console[1]) = 1
    /\ result[1] = invLog[1][1]

\* C27: when two calls of transcribeWithWhisper that were given different
\* keys are under way, the client each of them sends its request with has
\* the key given to that call.
C27_RequestWithOwnKey ==
    \A p \in Callers, q \in Callers :
        (/\ pc[p] # "idle" /\ pc[q] # "idle"
         /\ Truthy(params[p].openAIApiKey) /\ Truthy(params[q].openAIApiKey)
         /\ params[p].openAIApiKey # params[q].openAIApiKey
         /\ clients[p] # <<>>) =>
            clients[p][1].options.apiKey = params[p].openAIApiKey

\* a human message built with content blocks, by humanImage or by humanAudio
\* for a provider other than openai
Multimodal(p) ==
    /\ pc[p] = "done"
    /\ result[p].status = "ok"
    /\ params[p].builder = "humanImage" \/ params[p].provider # "openai"

\* C23: in a human message built by humanImage, or by humanAudio for a
\* provider other than openai, a text that was given is the first content
\* block and the media block follows it; without a text the media block is
\* the only block.
C23_TextBeforeMedia ==
    \A p \in Callers :
        Multimodal(p) =>
            LET content == result[p].value.content
                media == IF params[p].builder = "humanImage" THEN "image" ELSE "audio"
            IN  IF Truthy(params[p].text)
                THEN /\ Len(content) = 2
                     /\ content[1] = [type |-> "text", text |-> params[p].text.v]
                     /\ content[2].type = media
                ELSE /\ Len(content) = 1
                     /\ content[1].type = media

C23_Witness ==
    /\ Multimodal(1)
    /\ params[1].builder = "humanImage"
    /\ params[1].text = Some("Descreva")
    /\ Len(result[1].value.content) = 2
    /\ result[1].value.content[1].type = "text"

\* the extension a filename has: what follows its last dot, in lower case
ExtensionGiven(filename) ==
    IF filename.some /\ \E i \in 1..Len(filename.v) : SubSeq(filename.v, i, i) = "."
    THEN LastPart(filename.v) ELSE ""

\* C25: the detected type is the one of the filename's extension when that
\* extension is a recognized one, whatever the bytes are; otherwise the one
\* of the magic bytes; and the default, audio/mp3 or image/jpeg, when the
\* bytes are not recognized either.
C25_ExtensionThenMagicThenDefault ==
    \A p \in Callers :
        (Multimodal(p) /\ ~Truthy(params[p].mimeType)) =>
            LET image == params[p].builder = "humanImage"
                content == result[p].value.content
                detected == content[Len(content)].mime_type
                extension == ExtensionGiven(params[p].filename)
                recognized == IF image THEN {"jpg", "jpeg", "png", "gif", "webp"}
                              ELSE {"mp3", "mpeg", "wav", "wave", "mp4", "m4a", "webm",
                                    "ogg", "flac", "aac", "opus"}
            IN  IF extension \in recognized
                THEN detected = (IF image THEN detectImageMimeType(<<>>, Some("x." \o extension))
                                 ELSE detectAudioMimeType(<<>>, Some("x." \o extension)))
                ELSE detected = (IF image THEN detectImageMimeType(params[p].buffer, None)
                                 ELSE detectAudioMimeType(params[p].buffer, None))
====
